---- MODULE Spec2Model ----
(***************************************************************************)
(* Buffer lifecycle of the NotepadNext main window.                        *)
(*                                                                         *)
(* MainWindow.cpp drives three collaborators: the BufferManager (the       *)
(* registry that owns the buffers), the TabbedEditor (the ordered tabs and *)
(* the current index) and the recent-files list.  Every slot of MainWindow *)
(* runs to completion on the GUI thread, so each slot is one action; the   *)
(* answers the user gives to the dialogs a slot opens are its inputs.      *)
(* Indices are 0-based as in the source: tab i is tabs[i + 1].             *)
(***************************************************************************)
EXTENDS Integers, Sequences, FiniteSets, TLC

\* ---- bounds of the model ------------------------------------------------
MaxTabs == 3        \* most tabs open at once
NumPaths == 2       \* file paths the user can name
MaxText == 1        \* document contents are 0..MaxText
MaxOpen == 2        \* longest file list handed to openFileList
MaxSteps == 5       \* most slots run after initialize
MaxMacros == 4      \* most macros the recorder hands over

\* ---- values -------------------------------------------------------------
Paths == 1..NumPaths
Texts == 0..MaxText
EmptyFileName == 0      \* QString of size 0: a file dialog that was cancelled
Q_NULLPTR == 0          \* no buffer
INVALID_INDEX == -1     \* TabbedEditor::INVALID_INDEX, QTabBar's "no current tab"
Absent == -1            \* the path names no file on disk

VARIABLES
    bufs,           \* BufferManager: buffer id -> the ScintillaBuffer it owns
    tabs,           \* TabbedEditor: the buffers in tab order
    cur,            \* TabbedEditor: current index, INVALID_INDEX when there is no tab
    recent,         \* RecentFilesListManager: paths, most recent first
    disk,           \* file system: path -> content, or Absent
    nextId,         \* the next buffer the BufferManager allocates
    count,          \* the static counter of newFile ("New %1")
    connSwitched,   \* bufferSwitched is connected to bufferActivated
    connAllClosed,  \* allBuffersClosed is connected to newFile
    actionCloseAll, \* ui->actionCloseAll (and actionClose) is enabled
    accepted,       \* the close event was accepted: the window is gone
    steps,          \* slots run so far
    last,           \* the slot that ran last: its name, the state before it,
                    \* what it did (log) and what it returned
    recording,      \* ui->actionMacroRecording is checked: the recorder records
    currentMacro,   \* MainWindow::currentMacro, Q_NULLPTR or a macro
    macros,         \* MainWindow::macros, the saved macros in order
    nextMacro,      \* the next Macro the recorder allocates
    actionPlayback,                  \* ui->actionPlayback is enabled
    actionRunMacroMultipleTimes,     \* ui->actionRunMacroMultipleTimes is enabled
    actionSaveCurrentRecordedMacro,  \* ui->actionSaveCurrentRecordedMacro is enabled
    lastMacro       \* the macro action triggered last, and its inputs

macroVars == <<recording, currentMacro, macros, nextMacro, actionPlayback,
               actionRunMacroMultipleTimes, actionSaveCurrentRecordedMacro, lastMacro>>

windowVars == <<bufs, tabs, cur, recent, disk, nextId, count, connSwitched,
                connAllClosed, actionCloseAll, accepted, steps, last>>

vars == <<windowVars, macroVars>>

\* The mutable program state handed from call to call inside one slot.
World == [bufs |-> bufs, tabs |-> tabs, cur |-> cur, recent |-> recent,
          disk |-> disk, nextId |-> nextId, count |-> count,
          connSwitched |-> connSwitched, connAllClosed |-> connAllClosed,
          actionCloseAll |-> actionCloseAll, log |-> <<>>]

\* ---- sequences -----------------------------------------------------------
RECURSIVE Without(_, _)
Without(s, x) ==
    IF s = <<>> THEN <<>>
    ELSE IF Head(s) = x THEN Without(Tail(s), x)
    ELSE <<Head(s)>> \o Without(Tail(s), x)

Range(s) == {s[i] : i \in DOMAIN s}

Min(S) == CHOOSE x \in S : \A y \in S : x <= y

\* ---- the log of one slot --------------------------------------------------
\* One entry per thing a slot does that the user or a collaborator can see:
\* ev is "prompt" (Save/Discard/Cancel question, reply in reply), "dialog"
\* (Save-As chooser, chosen name in n), "write" (a write to disk, n = 1 when
\* it succeeded), "create file" (question of openFileList), "switched",
\* "created", "saved", "renamed", "closed", "removed" (the tab is gone),
\* "allClosed", "reloaded", "read failed" (a file could not be read, path in n).
\* cnt and cur are the tab count and current index right after it.
Note(w, ev, buf, reply, n) ==
    [w EXCEPT !.log = Append(@, [ev |-> ev, buf |-> buf, reply |-> reply, n |-> n,
                                 cnt |-> Len(w.tabs), cur |-> w.cur])]

\* ---- ScintillaBuffer -------------------------------------------------------
\* type: "Temporary" (untitled) or "File"; savePoint: content equals the last
\* persisted or initial content; present: the file existed at the last
\* snapshot (open, save, reload); stale: the file was written since then.
NewBuffer(name) ==
    [type |-> "Temporary", path |-> EmptyFileName, savePoint |-> TRUE, text |-> 0,
     name |-> name, present |-> FALSE, stale |-> FALSE]

isFile(b) == b.type = "File"

is_save_point(b) == b.savePoint

\* NoChange / Modified / Deleted / Restored: the disk against the snapshot.
checkForBufferStateChange(w, id) ==
    LET b == w.bufs[id] IN
    IF ~isFile(b) THEN "NoChange"
    ELSE IF b.present /\ w.disk[b.path] = Absent THEN "Deleted"
    ELSE IF ~b.present /\ w.disk[b.path] # Absent THEN "Restored"
    ELSE IF b.present /\ b.stale THEN "Modified"
    ELSE "NoChange"

\* ---- file system -----------------------------------------------------------
\* A write to path p by buffer `writer`: every other open buffer of that path
\* now holds an older snapshot.
WriteDisk(w, p, text, writer) ==
    [w EXCEPT !.disk[p] = text,
              !.bufs = [i \in DOMAIN w.bufs |->
                          IF i = writer
                          THEN [w.bufs[i] EXCEPT !.present = TRUE, !.stale = FALSE]
                          ELSE IF isFile(w.bufs[i]) /\ w.bufs[i].path = p
                          THEN [w.bufs[i] EXCEPT !.stale = TRUE]
                          ELSE w.bufs[i]]]

\* ---- RecentFilesListManager ------------------------------------------------
addFile(w, p) == [w EXCEPT !.recent = <<p>> \o Without(w.recent, p)]

removeFile(w, p) == [w EXCEPT !.recent = Without(w.recent, p)]

\* ---- TabbedEditor: queries ---------------------------------------------------
tabCount(w) == Len(w.tabs)

currentIndex(w) == w.cur

getBufferFromIndex(w, index) ==
    IF index >= 0 /\ index < Len(w.tabs) THEN w.tabs[index + 1] ELSE Q_NULLPTR

getCurrentBuffer(w) == getBufferFromIndex(w, w.cur)

findIndexFromBuffer(w, id) ==
    IF \E i \in DOMAIN w.tabs : w.tabs[i] = id
    THEN Min({i \in DOMAIN w.tabs : w.tabs[i] = id}) - 1
    ELSE INVALID_INDEX

\* ---- BufferManager: queries and reload ----------------------------------------
getBufferByFilePath(w, filePath) ==
    LET hits == {i \in DOMAIN w.bufs : isFile(w.bufs[i]) /\ w.bufs[i].path = filePath}
    IN  IF hits = {} THEN Q_NULLPTR ELSE Min(hits)

\* Re-reads the file: the in-memory edits are gone, the buffer is at save-point.
\* A buffer that is not file-backed has no file to read: the call is recorded
\* and the buffer left as it is.
reloadBuffer(w, id) ==
    LET b == w.bufs[id]
        t == IF w.disk[b.path] = Absent THEN 0 ELSE w.disk[b.path]
    IN  IF ~isFile(b) THEN Note(w, "reloaded", id, "", 0)
        ELSE Note([w EXCEPT !.bufs[id] = [b EXCEPT !.text = t, !.savePoint = TRUE,
                                               !.present = (w.disk[b.path] # Absent),
                                               !.stale = FALSE]],
                  "reloaded", id, "", 0)

\* ---- MainWindow: UI state --------------------------------------------------
updateSaveStatusBasedUi(w, isDirty) ==
    IF tabCount(w) = 1
    THEN [w EXCEPT !.actionCloseAll = isFile(w.bufs[getCurrentBuffer(w)]) \/ isDirty]
    ELSE [w EXCEPT !.actionCloseAll = TRUE]

updateGui(w, id) == updateSaveStatusBasedUi(w, ~is_save_point(w.bufs[id]))

\* checkBufferForModification sparing a buffer with unsaved edits.
checkBufferForModification_OnlyClean(w, id) ==
    LET state == checkForBufferStateChange(w, id) IN
    IF state = "NoChange" THEN [w |-> w, ret |-> FALSE]
    ELSE IF state = "Modified" /\ is_save_point(w.bufs[id])
    THEN [w |-> reloadBuffer(w, id), ret |-> TRUE]
    ELSE [w |-> w, ret |-> TRUE]

checkBufferForModification(w, id) ==
    LET state == checkForBufferStateChange(w, id) IN
    IF state = "NoChange" THEN [w |-> w, ret |-> FALSE]
    ELSE IF state = "Modified" THEN [w |-> reloadBuffer(w, id), ret |-> TRUE]
    ELSE [w |-> w, ret |-> TRUE]

bufferActivated(w, id) == updateGui(checkBufferForModification(w, id).w, id)

\* The signal TabbedEditor::bufferSwitched and the slot connected to it.
bufferSwitched(w, id) ==
    LET w1 == Note(w, "switched", id, "", 0)
    IN  IF w.connSwitched THEN bufferActivated(w1, id) ELSE w1

\* ---- TabbedEditor: operations ----------------------------------------------
\* Out of range: nothing happens.  The signal is emitted when the current tab
\* changes, not when the index is the current one already.
switchToIndex(w, index) ==
    IF index < 0 \/ index >= Len(w.tabs) THEN w
    ELSE IF index = w.cur THEN w
    ELSE bufferSwitched([w EXCEPT !.cur = index], w.tabs[index + 1])

switchToBuffer(w, id) == switchToIndex(w, findIndexFromBuffer(w, id))

addBuffer(w, id) ==
    LET w1 == [w EXCEPT !.tabs = Append(@, id)]
    IN  IF Len(w.tabs) = 0 THEN bufferSwitched([w1 EXCEPT !.cur = 0], id) ELSE w1

\* The editor's savePointChanged signal reaches the window only for the
\* document the editor shows, the current buffer.
savePointChanged(w, id, isDirty) ==
    IF getCurrentBuffer(w) = id THEN updateSaveStatusBasedUi(w, isDirty) ELSE w

\* ---- BufferManager signals and the slots MainWindow connects to them --------
bufferCreated(w, id) ==
    LET b  == w.bufs[id]
        w1 == Note(w, "created", id, "", 0)
        w2 == IF isFile(b) THEN removeFile(w1, b.path) ELSE w1
    IN  addBuffer(w2, id)

bufferRenamed(w, id) ==
    LET w1 == Note(w, "renamed", id, "", 0)
        w2 == removeFile(w1, w.bufs[id].path)
    IN  updateGui(w2, id)

bufferSaved(w, id) == Note(w, "saved", id, "", 0)

\* ---- BufferManager: creation ------------------------------------------------
createEmtpyBuffer(w, name) ==
    LET id == w.nextId
    IN  bufferCreated([w EXCEPT !.bufs = [i \in DOMAIN w.bufs \cup {id} |->
                                            IF i = id THEN NewBuffer(name) ELSE w.bufs[i]],
                                !.nextId = id + 1], id)

\* Returns the buffer already open for the path, else reads the file (creating
\* it when it does not exist) into a new file-backed buffer; Q_NULLPTR when the
\* read fails.
createBufferFromFile(w, filePath, readOk) ==
    LET open == getBufferByFilePath(w, filePath)
        id   == w.nextId
        text == IF w.disk[filePath] = Absent THEN 0 ELSE w.disk[filePath]
        b    == [type |-> "File", path |-> filePath, savePoint |-> TRUE, text |-> text,
                 name |-> 0, present |-> TRUE, stale |-> FALSE]
        w1   == [w EXCEPT !.disk[filePath] = text,
                          !.bufs = [i \in DOMAIN w.bufs \cup {id} |->
                                      IF i = id THEN b ELSE w.bufs[i]],
                          !.nextId = id + 1]
    IN  IF open # Q_NULLPTR THEN [w |-> w, ret |-> open]
        ELSE IF ~readOk
        THEN [w |-> Note(w, "read failed", Q_NULLPTR, "", filePath), ret |-> Q_NULLPTR]
        ELSE [w |-> bufferCreated(w1, id), ret |-> id]

\* ---- MainWindow::newFile ------------------------------------------------------
newFile(w) ==
    LET w1 == createEmtpyBuffer([w EXCEPT !.count = @ + 1], w.count)
    IN  switchToIndex(w1, tabCount(w1) - 1)

\* allBuffersClosed with the connection to MainWindow::newFile left out.
allBuffersClosed_Unconnected(w) == Note(w, "allClosed", Q_NULLPTR, "", 0)

\* The signal TabbedEditor::allBuffersClosed and the slot connected to it.
allBuffersClosed(w) ==
    LET w1 == Note(w, "allClosed", Q_NULLPTR, "", 0)
    IN  IF w.connAllClosed THEN newFile(w1) ELSE w1

\* ---- TabbedEditor::removeBuffer -------------------------------------------------
\* removeBuffer leaving the current index alone when a tab before it goes.
removeBuffer_NoShift(w, id) ==
    LET index  == findIndexFromBuffer(w, id)
        tabs1  == Without(w.tabs, id)
        n      == Len(tabs1)
        cur1   == IF index = w.cur THEN (IF w.cur < n THEN w.cur ELSE n - 1)
                  ELSE w.cur
        w1     == Note([w EXCEPT !.tabs = tabs1, !.cur = cur1], "removed", id, "", 0)
    IN  IF index = INVALID_INDEX THEN w
        ELSE IF n = 0 THEN allBuffersClosed(w1)
        ELSE IF index = w.cur THEN bufferSwitched(w1, tabs1[cur1 + 1])
        ELSE w1

\* The current index keeps naming the same buffer; when the current tab itself
\* goes, the tab now at its index becomes current, else the one before it.
removeBuffer(w, id) ==
    LET index  == findIndexFromBuffer(w, id)
        tabs1  == Without(w.tabs, id)
        n      == Len(tabs1)
        cur1   == IF index < w.cur THEN w.cur - 1
                  ELSE IF index = w.cur THEN (IF w.cur < n THEN w.cur ELSE n - 1)
                  ELSE w.cur
        w1     == Note([w EXCEPT !.tabs = tabs1, !.cur = cur1], "removed", id, "", 0)
    IN  IF index = INVALID_INDEX THEN w
        ELSE IF n = 0 THEN allBuffersClosed(w1)
        ELSE IF index = w.cur THEN bufferSwitched(w1, tabs1[cur1 + 1])
        ELSE w1

\* bufferClosed with the connection to TabbedEditor::removeBuffer left out.
bufferClosed_TabKept(w, id) ==
    LET b  == w.bufs[id]
        w1 == Note(w, "closed", id, "", 0)
    IN  IF isFile(b) THEN addFile(w1, b.path) ELSE w1

bufferClosed(w, id) ==
    LET b  == w.bufs[id]
        w1 == Note(w, "closed", id, "", 0)
        w2 == IF isFile(b) THEN addFile(w1, b.path) ELSE w1
    IN  removeBuffer(w2, id)

\* ---- BufferManager: save, save as, rename, close --------------------------------
saveBuffer(w, id, ok) ==
    LET b  == w.bufs[id]
        w1 == WriteDisk(Note(w, "write", id, "", 1), b.path, b.text, id)
        w2 == [w1 EXCEPT !.bufs[id].savePoint = TRUE]
    IN  IF is_save_point(b) THEN [w |-> w, ret |-> TRUE]
        ELSE IF ~ok THEN [w |-> Note(w, "write", id, "", 0), ret |-> FALSE]
        ELSE [w |-> bufferSaved(savePointChanged(w2, id, FALSE), id), ret |-> TRUE]

saveBufferAs(w, id, newFilePath, ok) ==
    LET b  == w.bufs[id]
        isRenamed == ~isFile(b) \/ b.path # newFilePath
        w1 == WriteDisk(Note(w, "write", id, "", 1), newFilePath, b.text, id)
        w2 == [w1 EXCEPT !.bufs[id].type = "File", !.bufs[id].path = newFilePath,
                         !.bufs[id].savePoint = TRUE]
        w3 == bufferSaved(savePointChanged(w2, id, FALSE), id)
    IN  IF ~ok THEN [w |-> Note(w, "write", id, "", 0), ret |-> FALSE]
        ELSE [w |-> IF isRenamed THEN bufferRenamed(w3, id) ELSE w3, ret |-> TRUE]

renameBuffer(w, id, newFilePath, ok) ==
    LET b  == w.bufs[id]
        w1 == WriteDisk(Note(w, "write", id, "", 1), newFilePath, b.text, id)
        w2 == [w1 EXCEPT !.disk[b.path] = IF b.path = newFilePath THEN @ ELSE Absent,
                         !.bufs[id].path = newFilePath,
                         !.bufs[id].savePoint = TRUE]
    IN  IF ~ok THEN [w |-> Note(w, "write", id, "", 0), ret |-> FALSE]
        ELSE [w |-> bufferRenamed(savePointChanged(w2, id, FALSE), id), ret |-> TRUE]

\* "stray": the registry is handed a buffer it does not hold (any more).
closeBuffer(w, id) ==
    IF id \notin DOMAIN w.bufs THEN Note(w, "stray", id, "", 0)
    ELSE LET w1 == bufferClosed(w, id)
         IN  [w1 EXCEPT !.bufs = [i \in DOMAIN w1.bufs \ {id} |-> w1.bufs[i]]]

\* ---- what the user answers --------------------------------------------------
\* One answer per question a slot may ask about a buffer: the reply to "Save
\* file?", the name chosen in the Save-As dialog (EmptyFileName: cancelled) and
\* whether the write to disk succeeds.
Answer(reply, fileName, ok) == [reply |-> reply, fileName |-> fileName, ok |-> ok]

NoAnswer == Answer("Cancel", EmptyFileName, TRUE)

AnswersFor(b) ==
    IF is_save_point(b) THEN {NoAnswer}
    ELSE {Answer("Cancel", EmptyFileName, TRUE), Answer("Discard", EmptyFileName, TRUE)}
         \cup (IF isFile(b)
               THEN {Answer("Save", EmptyFileName, ok) : ok \in BOOLEAN}
               ELSE {Answer("Save", EmptyFileName, TRUE)}
                    \cup {Answer("Save", f, ok) : f \in Paths, ok \in BOOLEAN})

\* The answers to a batch: one per tab, answer i + 1 for tab index i.
RECURSIVE AnswerSeqs(_)
AnswerSeqs(i) ==
    IF i >= Len(tabs) THEN {<<>>}
    ELSE {<<a>> \o rest : a \in AnswersFor(bufs[tabs[i + 1]]), rest \in AnswerSeqs(i + 1)}

AnswerMaps == AnswerSeqs(0)

\* ---- MainWindow: initial state, save ---------------------------------------------
\* isInInitialState with the test of isFile inverted.
isInInitialState_FileBacked(w) ==
    IF tabCount(w) = 1
    THEN LET buffer == w.bufs[getBufferFromIndex(w, 0)]
         IN  isFile(buffer) /\ is_save_point(buffer)
    ELSE FALSE

isInInitialState(w) ==
    IF tabCount(w) = 1
    THEN LET buffer == w.bufs[getBufferFromIndex(w, 0)]
         IN  ~isFile(buffer) /\ is_save_point(buffer)
    ELSE FALSE

saveFileAs(w, id, fileName, ok) == saveBufferAs(w, id, fileName, ok)

\* saveCurrentFileAsDialog reporting success when the chooser was cancelled.
saveCurrentFileAsDialog_CancelIsSuccess(w, a) ==
    LET buffer == getCurrentBuffer(w)
        w1 == Note(w, "dialog", buffer, "", a.fileName)
    IN  IF a.fileName = EmptyFileName THEN [w |-> w1, ret |-> TRUE]
        ELSE saveFileAs(w1, buffer, a.fileName, a.ok)

saveCurrentFileAsDialog(w, a) ==
    LET buffer == getCurrentBuffer(w)
        w1 == Note(w, "dialog", buffer, "", a.fileName)
    IN  IF a.fileName = EmptyFileName THEN [w |-> w1, ret |-> FALSE]
        ELSE saveFileAs(w1, buffer, a.fileName, a.ok)

\* saveFile without the test of the save-point.
saveFile_NoSavePointTest(w, id, a) ==
    IF ~isFile(w.bufs[id])
    THEN saveCurrentFileAsDialog(switchToBuffer(w, id), a)
    ELSE saveBuffer(w, id, a.ok)

\* saveFile reporting success for a file-backed buffer without saving it.
saveFile_NoWrite(w, id, a) ==
    IF is_save_point(w.bufs[id]) THEN [w |-> w, ret |-> TRUE]
    ELSE IF ~isFile(w.bufs[id])
    THEN saveCurrentFileAsDialog(switchToBuffer(w, id), a)
    ELSE [w |-> w, ret |-> TRUE]

saveFile(w, id, a) ==
    IF is_save_point(w.bufs[id]) THEN [w |-> w, ret |-> TRUE]
    ELSE IF ~isFile(w.bufs[id])
    THEN saveCurrentFileAsDialog(switchToBuffer(w, id), a)
    ELSE saveBuffer(w, id, a.ok)

\* ---- MainWindow::checkBuffersBeforeClose ----------------------------------------
RECURSIVE checkBuffersBeforeClose(_, _, _, _)
checkBuffersBeforeClose(w, startIndex, endIndex, ans) ==
    IF startIndex >= endIndex THEN [w |-> w, ret |-> TRUE]
    ELSE
      LET i      == startIndex
          buffer == getBufferFromIndex(w, i)
      IN  IF is_save_point(w.bufs[buffer])
          THEN checkBuffersBeforeClose(w, i + 1, endIndex, ans)
          ELSE
            LET w1    == switchToIndex(w, i)
                w2    == Note(w1, "prompt", buffer, ans[i + 1].reply, 0)
                saved == saveFile(w2, buffer, ans[i + 1])
            IN  IF ans[i + 1].reply = "Cancel" THEN [w |-> w2, ret |-> FALSE]
                ELSE IF ans[i + 1].reply = "Save"
                THEN IF saved.ret = FALSE THEN [w |-> saved.w, ret |-> FALSE]
                     ELSE checkBuffersBeforeClose(saved.w, i + 1, endIndex, ans)
                ELSE checkBuffersBeforeClose(w2, i + 1, endIndex, ans)

\* closeFile closing a buffer at save-point twice.
closeFile_DoubleClose(w, index, a) ==
    IF isInInitialState(w) THEN w
    ELSE
      LET buffer == getBufferFromIndex(w, index) IN
      IF is_save_point(w.bufs[buffer]) THEN closeBuffer(closeBuffer(w, buffer), buffer)
      ELSE
        LET w1    == switchToIndex(w, index)
            w2    == Note(w1, "prompt", buffer, a.reply, 0)
            saved == saveFile(w2, buffer, a)
        IN  IF a.reply = "Cancel" THEN w2
            ELSE IF a.reply = "Save"
            THEN IF saved.ret = FALSE THEN saved.w ELSE closeBuffer(saved.w, buffer)
            ELSE closeBuffer(w2, buffer)

\* closeFile saving the buffer when Discard is answered.
closeFile_DiscardSaves(w, index, a) ==
    IF isInInitialState(w) THEN w
    ELSE
      LET buffer == getBufferFromIndex(w, index) IN
      IF is_save_point(w.bufs[buffer]) THEN closeBuffer(w, buffer)
      ELSE
        LET w1    == switchToIndex(w, index)
            w2    == Note(w1, "prompt", buffer, a.reply, 0)
            saved == saveFile(w2, buffer, [a EXCEPT !.fileName = 1])
        IN  IF a.reply = "Cancel" THEN w2
            ELSE IF saved.ret = FALSE THEN saved.w ELSE closeBuffer(saved.w, buffer)

\* closeFile closing the buffer whatever saveFile returned.
closeFile_IgnoreSaveResult(w, index, a) ==
    IF isInInitialState(w) THEN w
    ELSE
      LET buffer == getBufferFromIndex(w, index) IN
      IF is_save_point(w.bufs[buffer]) THEN closeBuffer(w, buffer)
      ELSE
        LET w1    == switchToIndex(w, index)
            w2    == Note(w1, "prompt", buffer, a.reply, 0)
            saved == saveFile(w2, buffer, a)
        IN  IF a.reply = "Cancel" THEN w2
            ELSE IF a.reply = "Save" THEN closeBuffer(saved.w, buffer)
            ELSE closeBuffer(w2, buffer)

\* ---- MainWindow::closeFile ---------------------------------------------------------
closeFile(w, index, a) ==
    IF isInInitialState(w) THEN w
    ELSE
      LET buffer == getBufferFromIndex(w, index) IN
      IF is_save_point(w.bufs[buffer]) THEN closeBuffer(w, buffer)
      ELSE
        LET w1    == switchToIndex(w, index)
            w2    == Note(w1, "prompt", buffer, a.reply, 0)
            saved == saveFile(w2, buffer, a)
        IN  IF a.reply = "Cancel" THEN w2
            ELSE IF a.reply = "Save"
            THEN IF saved.ret = FALSE THEN saved.w ELSE closeBuffer(saved.w, buffer)
            ELSE closeBuffer(w2, buffer)

closeCurrentFile(w, a) == closeFile(w, currentIndex(w), a)

\* ---- MainWindow: the batch closes ---------------------------------------------------
\* Steps a closing loop may take before it is given up as not terminating.
Fuel == 2 * MaxTabs + 4

RECURSIVE closeDownFrom(_, _)
closeDownFrom(w, index) ==
    IF index < 0 THEN w
    ELSE closeDownFrom(closeBuffer(w, getBufferFromIndex(w, index)), index - 1)

\* closeAllFiles going on to close after checkBuffersBeforeClose returned false.
closeAllFiles_IgnoreCheck(w, forceClose, ans) ==
    LET checked == IF forceClose THEN [w |-> w, ret |-> TRUE]
                   ELSE checkBuffersBeforeClose(w, 0, tabCount(w), ans)
        w1 == switchToIndex(checked.w, tabCount(checked.w) - 1)
    IN  closeDownFrom(w1, tabCount(w1) - 1)

closeAllFiles(w, forceClose, ans) ==
    LET checked == IF forceClose THEN [w |-> w, ret |-> TRUE]
                   ELSE checkBuffersBeforeClose(w, 0, tabCount(w), ans)
        w1 == switchToIndex(checked.w, tabCount(checked.w) - 1)
    IN  IF ~checked.ret THEN checked.w
        ELSE closeDownFrom(w1, tabCount(w1) - 1)

\* The loop of closeAllExceptActive without the i++ that steps over the buffer to keep.
RECURSIVE closeOthers_NoSkip(_, _, _, _)
closeOthers_NoSkip(w, currentBuffer, i, fuel) ==
    IF ~(tabCount(w) > 1) THEN w
    ELSE IF fuel = 0 THEN Note(w, "hang", Q_NULLPTR, "", 0)
    ELSE LET buffer == getBufferFromIndex(w, i)
         IN  IF buffer = currentBuffer
             THEN closeOthers_NoSkip(w, currentBuffer, i, fuel - 1)
             ELSE closeOthers_NoSkip(closeBuffer(w, buffer), currentBuffer, i, fuel - 1)

RECURSIVE closeOthers(_, _, _, _)
closeOthers(w, currentBuffer, i, fuel) ==
    IF ~(tabCount(w) > 1) THEN w
    ELSE IF fuel = 0 THEN Note(w, "hang", Q_NULLPTR, "", 0)
    ELSE LET buffer == getBufferFromIndex(w, i)
         IN  IF buffer = currentBuffer
             THEN closeOthers(w, currentBuffer, i + 1, fuel - 1)
             ELSE closeOthers(closeBuffer(w, buffer), currentBuffer, i, fuel - 1)

\* closeAllExceptActive going on to the right-hand check after the left-hand one stopped.
closeAllExceptActive_IgnoreLeft(w, ans) ==
    LET currentBuffer == getCurrentBuffer(w)
        curIndex == currentIndex(w)
        left  == checkBuffersBeforeClose(w, 0, curIndex, ans)
        right == checkBuffersBeforeClose(left.w, curIndex + 1, tabCount(left.w), ans)
    IN  IF ~right.ret THEN right.w
        ELSE closeOthers(right.w, currentBuffer, 0, Fuel)

\* closeAllExceptActive reading the current buffer after the checks, not before.
closeAllExceptActive_CurrentAfterCheck(w, ans) ==
    LET curIndex == currentIndex(w)
        left  == checkBuffersBeforeClose(w, 0, curIndex, ans)
        right == checkBuffersBeforeClose(left.w, curIndex + 1, tabCount(left.w), ans)
    IN  IF ~left.ret THEN left.w
        ELSE IF ~right.ret THEN right.w
        ELSE closeOthers(right.w, getCurrentBuffer(right.w), 0, Fuel)

closeAllExceptActive(w, ans) ==
    LET currentBuffer == getCurrentBuffer(w)
        curIndex == currentIndex(w)
        left  == checkBuffersBeforeClose(w, 0, curIndex, ans)
        right == checkBuffersBeforeClose(left.w, curIndex + 1, tabCount(left.w), ans)
    IN  IF ~left.ret THEN left.w
        ELSE IF ~right.ret THEN right.w
        ELSE closeOthers(right.w, currentBuffer, 0, Fuel)

RECURSIVE closeLeft(_, _)
closeLeft(w, fuel) ==
    IF ~(currentIndex(w) > 0) THEN w
    ELSE IF fuel = 0 THEN Note(w, "hang", Q_NULLPTR, "", 0)
    ELSE closeLeft(closeBuffer(w, getBufferFromIndex(w, 0)), fuel - 1)

\* closeAllToLeft without restoring the current index after the check.
closeAllToLeft_NoRestore(w, ans) ==
    LET curIndex == currentIndex(w)
        checked  == checkBuffersBeforeClose(w, 0, curIndex, ans)
    IN  IF ~checked.ret THEN checked.w
        ELSE closeLeft(checked.w, Fuel)

closeAllToLeft(w, ans) ==
    LET curIndex == currentIndex(w)
        checked  == checkBuffersBeforeClose(w, 0, curIndex, ans)
    IN  IF ~checked.ret THEN checked.w
        ELSE closeLeft(switchToIndex(checked.w, curIndex), Fuel)

RECURSIVE closeRight(_, _, _)
closeRight(w, curIndex, fuel) ==
    IF ~(curIndex < tabCount(w) - 1) THEN w
    ELSE IF fuel = 0 THEN Note(w, "hang", Q_NULLPTR, "", 0)
    ELSE closeRight(closeBuffer(w, getBufferFromIndex(w, curIndex + 1)), curIndex, fuel - 1)

\* closeAllToRight closing from the current index on, not from the one after it.
closeAllToRight_FromCurrent(w, ans) ==
    LET curIndex == currentIndex(w)
        checked  == checkBuffersBeforeClose(w, curIndex, tabCount(w), ans)
    IN  IF ~checked.ret THEN checked.w
        ELSE closeRight(switchToIndex(checked.w, curIndex), curIndex - 1, Fuel)

closeAllToRight(w, ans) ==
    LET curIndex == currentIndex(w)
        checked  == checkBuffersBeforeClose(w, curIndex, tabCount(w), ans)
    IN  IF ~checked.ret THEN checked.w
        ELSE closeRight(switchToIndex(checked.w, curIndex), curIndex, Fuel)

\* ---- MainWindow::renameFile --------------------------------------------------------
renameFile(w, fileName, ok) ==
    LET buffer      == getCurrentBuffer(w)
        w1          == Note(w, "dialog", buffer, "", fileName)
        otherBuffer == getBufferByFilePath(w1, fileName)
        renamed     == renameBuffer(w1, buffer, fileName, ok)
    IN  IF fileName = EmptyFileName THEN w1
        ELSE IF renamed.ret /\ otherBuffer # Q_NULLPTR
        THEN closeBuffer(renamed.w, otherBuffer)
        ELSE renamed.w

\* ---- MainWindow::openFileList --------------------------------------------------------
\* The loop of openFileList creating the file whatever is answered.
RECURSIVE openEach_AlwaysCreate(_, _, _, _, _, _)
openEach_AlwaysCreate(w, fileNames, yes, readOk, k, most) ==
    IF k > Len(fileNames) THEN [w |-> w, ret |-> most]
    ELSE
      LET filePath == fileNames[k]
          buffer   == getBufferByFilePath(w, filePath)
          asked    == Note(w, "create file", Q_NULLPTR, IF yes[k] THEN "Yes" ELSE "No", filePath)
          made     == createBufferFromFile(w, filePath, readOk[k])
          madeNew  == createBufferFromFile(asked, filePath, readOk[k])
      IN  IF buffer # Q_NULLPTR
          THEN openEach_AlwaysCreate(w, fileNames, yes, readOk, k + 1, buffer)
          ELSE IF w.disk[filePath] = Absent
          THEN openEach_AlwaysCreate(madeNew.w, fileNames, yes, readOk, k + 1, madeNew.ret)
          ELSE openEach_AlwaysCreate(made.w, fileNames, yes, readOk, k + 1, made.ret)

\* yes[k]: the reply to "Create File" for entry k; readOk[k]: the read succeeds.
\* most is mostRecentBuffer.
RECURSIVE openEach(_, _, _, _, _, _)
openEach(w, fileNames, yes, readOk, k, most) ==
    IF k > Len(fileNames) THEN [w |-> w, ret |-> most]
    ELSE
      LET filePath == fileNames[k]
          buffer   == getBufferByFilePath(w, filePath)
          asked    == Note(w, "create file", Q_NULLPTR, IF yes[k] THEN "Yes" ELSE "No", filePath)
          made     == createBufferFromFile(w, filePath, readOk[k])
          madeNew  == createBufferFromFile(asked, filePath, readOk[k])
      IN  IF buffer # Q_NULLPTR
          THEN openEach(w, fileNames, yes, readOk, k + 1, buffer)
          ELSE IF w.disk[filePath] = Absent
          THEN IF yes[k]
               THEN openEach(madeNew.w, fileNames, yes, readOk, k + 1, madeNew.ret)
               ELSE openEach(removeFile(asked, filePath), fileNames, yes, readOk, k + 1, most)
          ELSE openEach(made.w, fileNames, yes, readOk, k + 1, made.ret)

openFileList(w, fileNames, yes, readOk) ==
    IF Len(fileNames) = 0 THEN w
    ELSE
      LET wasInitialState == isInInitialState(w)
          opened == openEach(w, fileNames, yes, readOk, 1, Q_NULLPTR)
          w1     == switchToBuffer(opened.w, opened.ret)
      IN  IF opened.ret # Q_NULLPTR
          THEN IF wasInitialState THEN closeFile(w1, 0, NoAnswer) ELSE w1
          ELSE opened.w

\* ---- MainWindow::reloadFile ---------------------------------------------------------
\* yes: the reply to "Are you sure you want to reload?".
reloadFile(w, yes) ==
    LET buffer == getCurrentBuffer(w)
        b      == w.bufs[buffer]
        w1     == Note(w, "reload file", buffer, IF yes THEN "Yes" ELSE "No", 0)
    IN  IF ~isFile(b) /\ ~is_save_point(b) THEN w
        ELSE IF yes THEN reloadBuffer(w1, buffer)
        ELSE w1

\* closeEvent without the disconnect of allBuffersClosed from newFile.
closeEvent_StillConnected(w, ans) ==
    LET checked == checkBuffersBeforeClose(w, 0, tabCount(w), ans)
        w1 == [checked.w EXCEPT !.connSwitched = FALSE]
    IN  IF ~checked.ret THEN [w |-> checked.w, ret |-> FALSE]
        ELSE [w |-> closeAllFiles(w1, TRUE, ans), ret |-> TRUE]

\* ---- MainWindow::closeEvent ------------------------------------------------------------
\* ret: the event was accepted.
closeEvent(w, ans) ==
    LET checked == checkBuffersBeforeClose(w, 0, tabCount(w), ans)
        w1 == [checked.w EXCEPT !.connSwitched = FALSE, !.connAllClosed = FALSE]
    IN  IF ~checked.ret THEN [w |-> checked.w, ret |-> FALSE]
        ELSE [w |-> closeAllFiles(w1, TRUE, ans), ret |-> TRUE]

\* ---- MainWindow::focusIn ------------------------------------------------------------------
focusIn(w) ==
    LET checked == checkBufferForModification(w, getCurrentBuffer(w))
    IN  IF checked.ret THEN updateGui(checked.w, getCurrentBuffer(checked.w)) ELSE checked.w

\* ---- MainWindow::updateBufferPositionBasedUi: which actions are enabled -----------------
actionCloseAllToLeft == cur # 0

actionCloseAllToRight == cur # Len(tabs) - 1

actionCloseAllExceptActive == Len(tabs) > 1

\* ---- MainWindow: the macro actions -----------------------------------------------------------
\* The macro state handed through one lambda.
MacroWorld ==
    [recording |-> recording, currentMacro |-> currentMacro, macros |-> macros,
     nextMacro |-> nextMacro, actionPlayback |-> actionPlayback,
     actionRunMacroMultipleTimes |-> actionRunMacroMultipleTimes,
     actionSaveCurrentRecordedMacro |-> actionSaveCurrentRecordedMacro]

\* The macro state the constructor leaves: nothing recorded, nothing saved, the
\* three actions disabled as the form declares them.
MacroConstructed ==
    [recording |-> FALSE, currentMacro |-> Q_NULLPTR, macros |-> <<>>,
     nextMacro |-> 1, actionPlayback |-> FALSE,
     actionRunMacroMultipleTimes |-> FALSE,
     actionSaveCurrentRecordedMacro |-> FALSE]

\* The lambda on actionMacroRecording without the macros.contains test: a macro
\* left from before is offered for saving again.
macroRecordingTriggered_AlwaysSavable(m, b, size) ==
    IF b
    THEN [m EXCEPT !.recording = TRUE,
                   !.actionPlayback = FALSE,
                   !.actionRunMacroMultipleTimes = FALSE,
                   !.actionSaveCurrentRecordedMacro = FALSE]
    ELSE IF size > 0
    THEN [m EXCEPT !.recording = FALSE,
                   !.currentMacro = m.nextMacro,
                   !.nextMacro = m.nextMacro + 1,
                   !.actionPlayback = TRUE,
                   !.actionRunMacroMultipleTimes = TRUE,
                   !.actionSaveCurrentRecordedMacro = TRUE]
    ELSE IF m.currentMacro # Q_NULLPTR
    THEN [m EXCEPT !.recording = FALSE,
                   !.actionPlayback = TRUE,
                   !.actionRunMacroMultipleTimes = TRUE,
                   !.actionSaveCurrentRecordedMacro = TRUE]
    ELSE [m EXCEPT !.recording = FALSE]

\* The lambda connected to actionMacroRecording.  b: the action is now checked.
\* size: the length of the macro stopRecording() returns; the recorder
\* allocates it, and a macro of size 0 is deleted again.
macroRecordingTriggered(m, b, size) ==
    IF b
    THEN [m EXCEPT !.recording = TRUE,
                   !.actionPlayback = FALSE,
                   !.actionRunMacroMultipleTimes = FALSE,
                   !.actionSaveCurrentRecordedMacro = FALSE]
    ELSE IF size > 0
    THEN [m EXCEPT !.recording = FALSE,
                   !.currentMacro = m.nextMacro,
                   !.nextMacro = m.nextMacro + 1,
                   !.actionPlayback = TRUE,
                   !.actionRunMacroMultipleTimes = TRUE,
                   !.actionSaveCurrentRecordedMacro = TRUE]
    ELSE IF m.currentMacro # Q_NULLPTR
    THEN [m EXCEPT !.recording = FALSE,
                   !.actionPlayback = TRUE,
                   !.actionRunMacroMultipleTimes = TRUE,
                   !.actionSaveCurrentRecordedMacro =
                        IF \A i \in DOMAIN m.macros : m.macros[i] # m.currentMacro
                        THEN TRUE ELSE m.actionSaveCurrentRecordedMacro]
    ELSE [m EXCEPT !.recording = FALSE]

\* The lambda connected to actionPlayback: currentMacro->replay(editor).  The
\* macro state is as before; what the replay types is an edit of the document.
playbackTriggered(m) == m

\* The lambda connected to actionRunMacroMultipleTimes: it shows the dialog with
\* the saved macros and the current one; the macro state is as before.
runMacroMultipleTimesTriggered(m) == m

\* The lambda connected to actionSaveCurrentRecordedMacro.  ok: the
\* MacroSaveDialog was accepted.
saveCurrentRecordedMacroTriggered(m, ok) ==
    IF ok
    THEN [m EXCEPT !.actionSaveCurrentRecordedMacro = FALSE,
                   !.macros = Append(m.macros, m.currentMacro)]
    ELSE m

\* ---- the state machine ----------------------------------------------------------------------
NoBuffers == [i \in {} |-> NewBuffer(0)]

\* The window as the constructor leaves it: no buffer, every signal connected.
Constructed ==
    [bufs |-> NoBuffers, tabs |-> <<>>, cur |-> INVALID_INDEX, recent |-> <<>>,
     disk |-> [p \in Paths |-> 0], nextId |-> 1, count |-> 1,
     connSwitched |-> TRUE, connAllClosed |-> TRUE, actionCloseAll |-> TRUE, log |-> <<>>]

\* MainWindow::initialize: no tab yet, so newFile() runs.
initialize(w) == IF tabCount(w) = 0 THEN newFile(w) ELSE w

Snapshot(w) == [bufs |-> w.bufs, tabs |-> w.tabs, cur |-> w.cur, recent |-> w.recent,
                disk |-> w.disk, nextId |-> w.nextId]

\* The state after a slot has run, and the record of that run.
Commit(op, w, arg, files, ret) ==
    /\ steps' = steps + 1
    /\ Len(w.tabs) <= MaxTabs
    /\ bufs' = w.bufs
    /\ tabs' = w.tabs
    /\ cur' = w.cur
    /\ recent' = w.recent
    /\ disk' = w.disk
    /\ nextId' = w.nextId
    /\ count' = w.count
    /\ connSwitched' = w.connSwitched
    /\ connAllClosed' = w.connAllClosed
    /\ actionCloseAll' = w.actionCloseAll
    /\ last' = [op |-> op, pre |-> Snapshot(World), arg |-> arg, files |-> files,
                log |-> w.log, ret |-> ret]
    /\ UNCHANGED macroVars

\* The window is open and the run has slots left.
Running == ~accepted /\ steps < MaxSteps

Init ==
    LET w == initialize(Constructed) IN
    /\ bufs = w.bufs
    /\ tabs = w.tabs
    /\ cur = w.cur
    /\ recent = w.recent
    /\ disk = w.disk
    /\ nextId = w.nextId
    /\ count = w.count
    /\ connSwitched = w.connSwitched
    /\ connAllClosed = w.connAllClosed
    /\ actionCloseAll = w.actionCloseAll
    /\ accepted = FALSE
    /\ steps = 0
    /\ last = [op |-> "initialize", pre |-> Snapshot(Constructed), arg |-> 0,
               files |-> <<>>, log |-> w.log, ret |-> TRUE]
    /\ recording = MacroConstructed.recording
    /\ currentMacro = MacroConstructed.currentMacro
    /\ macros = MacroConstructed.macros
    /\ nextMacro = MacroConstructed.nextMacro
    /\ actionPlayback = MacroConstructed.actionPlayback
    /\ actionRunMacroMultipleTimes = MacroConstructed.actionRunMacroMultipleTimes
    /\ actionSaveCurrentRecordedMacro = MacroConstructed.actionSaveCurrentRecordedMacro
    /\ lastMacro = [op |-> "none", pre |-> MacroConstructed, b |-> FALSE, size |-> 0, ok |-> FALSE]

FileLists == UNION {[1..n -> Paths] : n \in 0..MaxOpen}

NewFile ==
    /\ Running
    /\ Commit("newFile", newFile(World), 0, <<>>, TRUE)
    /\ UNCHANGED accepted

OpenFileList ==
    /\ Running
    /\ \E fileNames \in FileLists :
         \E yes \in [DOMAIN fileNames -> BOOLEAN], readOk \in [DOMAIN fileNames -> BOOLEAN] :
            \* a file that exists is not asked about, an open one is not read
            /\ \A k \in DOMAIN fileNames : disk[fileNames[k]] # Absent => yes[k]
            /\ \A k \in DOMAIN fileNames :
                  getBufferByFilePath(World, fileNames[k]) # Q_NULLPTR => readOk[k]
            /\ Commit("openFileList", openFileList(World, fileNames, yes, readOk),
                   0, fileNames, TRUE)
    /\ UNCHANGED accepted

\* QTabBar::tabCloseRequested: the close button of any tab.
TabCloseRequested ==
    /\ Running
    /\ \E index \in 0..(Len(tabs) - 1) :
         \E a \in AnswersFor(bufs[tabs[index + 1]]) :
            Commit("closeFile", closeFile(World, index, a), index, <<>>, TRUE)
    /\ UNCHANGED accepted

CloseCurrentFile ==
    /\ Running
    /\ actionCloseAll
    /\ \E a \in AnswersFor(bufs[tabs[cur + 1]]) :
         Commit("closeCurrentFile", closeCurrentFile(World, a), cur, <<>>, TRUE)
    /\ UNCHANGED accepted

CloseAllFiles ==
    /\ Running
    /\ actionCloseAll
    /\ \E ans \in AnswerMaps :
         Commit("closeAllFiles", closeAllFiles(World, FALSE, ans), cur, <<>>, TRUE)
    /\ UNCHANGED accepted

CloseAllExceptActive ==
    /\ Running
    /\ actionCloseAllExceptActive
    /\ \E ans \in AnswerMaps :
         Commit("closeAllExceptActive", closeAllExceptActive(World, ans), cur, <<>>, TRUE)
    /\ UNCHANGED accepted

CloseAllToLeft ==
    /\ Running
    /\ actionCloseAllToLeft
    /\ \E ans \in AnswerMaps :
         Commit("closeAllToLeft", closeAllToLeft(World, ans), cur, <<>>, TRUE)
    /\ UNCHANGED accepted

CloseAllToRight ==
    /\ Running
    /\ actionCloseAllToRight
    /\ \E ans \in AnswerMaps :
         Commit("closeAllToRight", closeAllToRight(World, ans), cur, <<>>, TRUE)
    /\ UNCHANGED accepted

SaveCurrentFile ==
    /\ Running
    /\ \E a \in AnswersFor(bufs[tabs[cur + 1]]) :
         /\ a.reply = "Save" \/ is_save_point(bufs[tabs[cur + 1]])
         /\ LET r == saveFile(World, tabs[cur + 1], a)
            IN  Commit("saveCurrentFile", r.w, cur, <<>>, r.ret)
    /\ UNCHANGED accepted

SaveCurrentFileAsDialog ==
    /\ Running
    /\ \E fileName \in {EmptyFileName} \cup Paths, ok \in BOOLEAN :
         LET r == saveCurrentFileAsDialog(World, Answer("Save", fileName, ok))
         IN  Commit("saveCurrentFileAsDialog", r.w, fileName, <<>>, r.ret)
    /\ UNCHANGED accepted

\* actionRename is enabled for file-backed buffers only (Q_ASSERT(buffer->isFile())).
RenameFile ==
    /\ Running
    /\ isFile(bufs[tabs[cur + 1]])
    /\ \E fileName \in {EmptyFileName} \cup Paths, ok \in BOOLEAN :
         Commit("renameFile", renameFile(World, fileName, ok), fileName, <<>>, ok)
    /\ UNCHANGED accepted

CloseEvent ==
    /\ Running
    /\ \E ans \in AnswerMaps :
         LET r == closeEvent(World, ans)
         IN  /\ Commit("closeEvent", r.w, 0, <<>>, r.ret)
             /\ accepted' = r.ret

\* actionReload triggered.  The slot tests the buffer itself (it does not
\* assert isFile as renameFile does).
ReloadFile ==
    /\ Running
    /\ \E yes \in BOOLEAN :
         Commit("reloadFile", reloadFile(World, yes), 0, <<>>, TRUE)
    /\ UNCHANGED accepted

FocusIn ==
    /\ Running
    /\ Commit("focusIn", focusIn(World), 0, <<>>, TRUE)
    /\ UNCHANGED accepted

\* The user clicks a tab.
SwitchTab ==
    /\ Running
    /\ \E index \in 0..(Len(tabs) - 1) :
         Commit("switchTab", switchToIndex(World, index), index, <<>>, TRUE)
    /\ UNCHANGED accepted

\* The user types in the editor: the current document changes and leaves its
\* save-point; the editor reports savePointChanged(true).
edit(w, text) ==
    LET id == getCurrentBuffer(w)
    IN  savePointChanged([w EXCEPT !.bufs[id].text = text, !.bufs[id].savePoint = FALSE],
                         id, TRUE)

Edit ==
    /\ Running
    /\ \E text \in Texts \ {bufs[tabs[cur + 1]].text} :
         Commit("edit", edit(World, text), text, <<>>, TRUE)
    /\ UNCHANGED accepted

\* Another program writes or deletes a file.
externalWrite(w, p, text) == WriteDisk(w, p, text, Q_NULLPTR)

ExternalWrite ==
    /\ Running
    /\ \E p \in Paths, text \in Texts :
         Commit("externalWrite", externalWrite(World, p, text), p, <<>>, TRUE)
    /\ UNCHANGED accepted

ExternalDelete ==
    /\ Running
    /\ \E p \in Paths :
         /\ disk[p] # Absent
         /\ Commit("externalDelete", [World EXCEPT !.disk[p] = Absent], p, <<>>, TRUE)
    /\ UNCHANGED accepted

Next ==
    \/ NewFile
    \/ OpenFileList
    \/ TabCloseRequested
    \/ CloseCurrentFile
    \/ CloseAllFiles
    \/ CloseAllExceptActive
    \/ CloseAllToLeft
    \/ CloseAllToRight
    \/ SaveCurrentFile
    \/ SaveCurrentFileAsDialog
    \/ RenameFile
    \/ ReloadFile
    \/ CloseEvent
    \/ FocusIn
    \/ SwitchTab
    \/ Edit
    \/ ExternalWrite
    \/ ExternalDelete

Spec == Init /\ [][Next]_vars

\* ---- the macro actions as a state machine -------------------------------------------------
\* The macro lambdas read and write the recorder, currentMacro, macros and the
\* three macro actions only, so they run here beside a window that stands still.
MacroSizes == 0..1

MacroCommit(op, m, b, size, ok) ==
    /\ recording' = m.recording
    /\ currentMacro' = m.currentMacro
    /\ macros' = m.macros
    /\ nextMacro' = m.nextMacro
    /\ actionPlayback' = m.actionPlayback
    /\ actionRunMacroMultipleTimes' = m.actionRunMacroMultipleTimes
    /\ actionSaveCurrentRecordedMacro' = m.actionSaveCurrentRecordedMacro
    /\ lastMacro' = [op |-> op, pre |-> MacroWorld, b |-> b, size |-> size, ok |-> ok]
    /\ UNCHANGED windowVars

\* actionMacroRecording is checkable: a trigger toggles it and hands over the
\* new state.  A recording that is being stopped holds size actions.
MacroRecording ==
    /\ ~accepted
    /\ \E size \in MacroSizes :
         /\ recording \/ size = 0
         /\ (recording /\ size > 0) => nextMacro <= MaxMacros
         /\ MacroCommit("macroRecording",
                        macroRecordingTriggered(MacroWorld, ~recording, size),
                        ~recording, size, FALSE)

Playback ==
    /\ ~accepted
    /\ actionPlayback
    /\ MacroCommit("playback", playbackTriggered(MacroWorld), FALSE, 0, FALSE)

RunMacroMultipleTimes ==
    /\ ~accepted
    /\ actionRunMacroMultipleTimes
    /\ MacroCommit("runMacroMultipleTimes", runMacroMultipleTimesTriggered(MacroWorld),
                   FALSE, 0, FALSE)

SaveCurrentRecordedMacro ==
    /\ ~accepted
    /\ actionSaveCurrentRecordedMacro
    /\ \E ok \in BOOLEAN :
         MacroCommit("saveCurrentRecordedMacro",
                     saveCurrentRecordedMacroTriggered(MacroWorld, ok), FALSE, 0, ok)

MacroNext ==
    \/ MacroRecording
    \/ Playback
    \/ RunMacroMultipleTimes
    \/ SaveCurrentRecordedMacro

MacroSpec == Init /\ [][MacroNext]_vars

\* ---- reading the record of the last slot ------------------------------------------------------
Pre == last.pre

Log == last.log

Logged(ev) == {i \in DOMAIN Log : Log[i].ev = ev}

Closed == {Log[i].buf : i \in Logged("closed")}

Reloaded == {Log[i].buf : i \in Logged("reloaded")}

Prompted(reply) == {i \in Logged("prompt") : Log[i].reply = reply}

BatchCloses == {"closeAllFiles", "closeAllExceptActive", "closeAllToLeft",
                "closeAllToRight", "closeEvent"}

SingleCloses == {"closeFile", "closeCurrentFile"}

CreateCloseOps == {"newFile", "openFileList", "renameFile"} \cup SingleCloses
                  \cup (BatchCloses \ {"closeEvent"})

PreInitialState ==
    /\ Len(Pre.tabs) = 1
    /\ ~isFile(Pre.bufs[Pre.tabs[1]])
    /\ is_save_point(Pre.bufs[Pre.tabs[1]])

WithPath(bs, p) == {i \in DOMAIN bs : isFile(bs[i]) /\ bs[i].path = p}

NoDuplicates(seq) == \A i, j \in DOMAIN seq : seq[i] = seq[j] => i = j

\* ---- claims --------------------------------------------------------------------------------

\* C1: after every completed create or close operation the buffers of the
\* registry are exactly the buffers of the tab ordering, each in one position.
C1_RegistryTabsBijection ==
    last.op \in CreateCloseOps =>
        /\ DOMAIN bufs = Range(tabs)
        /\ NoDuplicates(tabs)

C1_Witness ==
    /\ last.op = "renameFile"
    /\ Closed # {}
    /\ Len(tabs) >= 2

\* C2: in every reachable state no two open file-backed buffers have the same
\* path, also after a save-as or rename onto a path open in another buffer.
C2_PathsUnique ==
    \A i, j \in DOMAIN bufs :
        (isFile(bufs[i]) /\ isFile(bufs[j]) /\ bufs[i].path = bufs[j].path) => i = j

\* C3: openFileList with paths that are already open creates no buffer: the
\* number of buffers is unchanged, exactly one buffer has each such path, and
\* the existing buffer of the (last) path is the current one.
C3_OpenAlreadyOpen ==
    (/\ last.op = "openFileList"
     /\ last.files # <<>>
     /\ \A k \in DOMAIN last.files : WithPath(Pre.bufs, last.files[k]) # {})
    =>
    /\ Len(tabs) = Len(Pre.tabs)
    /\ DOMAIN bufs = DOMAIN Pre.bufs
    /\ \A k \in DOMAIN last.files : Cardinality(WithPath(bufs, last.files[k])) = 1
    /\ getCurrentBuffer(World) \in WithPath(bufs, last.files[Len(last.files)])

SaveThenCancel(i, j) ==
    /\ i \in Prompted("Save")
    /\ j \in Prompted("Cancel")
    /\ i < j

C6_CloseInitialIsNoOp ==
    (last.op \in SingleCloses /\ PreInitialState) =>
        /\ bufs = Pre.bufs
        /\ tabs = Pre.tabs
        /\ cur = Pre.cur
        /\ Log = <<>>

C6_Witness ==
    /\ last.op = "closeCurrentFile"
    /\ PreInitialState

\* C7: closeAllFiles(forceClose = false) invoked in the initial state leaves
\* that same buffer open and creates no replacement buffer.
C7_CloseAllInitialIsNoOp ==
    (last.op = "closeAllFiles" /\ PreInitialState) =>
        /\ tabs = Pre.tabs
        /\ DOMAIN bufs = DOMAIN Pre.bufs
        /\ Logged("created") = {}

\* C8: renaming the current buffer onto a path open in a separate buffer: on
\* success that other buffer is closed and the renamed buffer is the only open
\* buffer of the new path; on failure the other buffer stays open.
C8_RenameOntoOpenPath ==
    (/\ last.op = "renameFile"
     /\ last.arg # EmptyFileName
     /\ WithPath(Pre.bufs, last.arg) \ {Pre.tabs[Pre.cur + 1]} # {})
    =>
    LET renamed == Pre.tabs[Pre.cur + 1]
        others  == WithPath(Pre.bufs, last.arg) \ {renamed}
    IN  IF last.ret
        THEN /\ renamed \in DOMAIN bufs
             /\ WithPath(bufs, last.arg) = {renamed}
             /\ Closed \cap others # {}
        ELSE others \subseteq DOMAIN bufs

\* C9: after every slot but the accepted window close the tab sequence is not
\* empty and the current index names one of its tabs; when the slot closed the
\* last buffer, a fresh empty untitled buffer was created and is current.
C9_NeverEmpty ==
    ~accepted =>
        /\ Len(tabs) >= 1
        /\ cur \in 0..(Len(tabs) - 1)
        /\ Logged("allClosed") # {} =>
            /\ Len(tabs) = 1
            /\ tabs[1] \notin DOMAIN Pre.bufs
            /\ tabs[1] \in DOMAIN bufs
            /\ bufs[tabs[1]] = NewBuffer(bufs[tabs[1]].name)

C9_Witness ==
    /\ ~accepted
    /\ last.op = "closeAllFiles"
    /\ Logged("allClosed") # {}
    /\ Len(Pre.tabs) >= 2

\* A prompt answered Save whose write to disk failed.
FailedSave(i) ==
    /\ i \in Prompted("Save")
    /\ \E k \in Logged("write") : k > i /\ Log[k].buf = Log[i].buf /\ Log[k].n = 0

\* C10: when Save is answered to a close prompt and the save fails, the close
\* stops: the buffer stays open and dirty, no later buffer is prompted, and
\* nothing is closed.
C10_FailedSaveStopsClose ==
    \A i \in DOMAIN Log : FailedSave(i) =>
        /\ Log[i].buf \in DOMAIN bufs
        /\ ~is_save_point(bufs[Log[i].buf])
        /\ \A k \in Logged("prompt") : k <= i
        /\ Closed = {}
        /\ tabs = Pre.tabs

C10_Witness ==
    /\ last.op = "closeAllFiles"
    /\ \E i \in DOMAIN Log : FailedSave(i) /\ Log[i].buf # Pre.tabs[Len(Pre.tabs)]
    /\ \E id \in DOMAIN Pre.bufs : id # Pre.tabs[1] /\ ~is_save_point(Pre.bufs[id])

\* ---- more of the record of the last slot --------------------------------------------------
PreCurrent == Pre.tabs[Pre.cur + 1]

\* The check before a close stopped: Cancel was answered, a write failed, or
\* the Save-As chooser was cancelled.
Aborted ==
    \/ Prompted("Cancel") # {}
    \/ \E k \in Logged("write") : Log[k].n = 0
    \/ \E k \in Logged("dialog") : Log[k].n = EmptyFileName

IsClosedEvent(e) == e.ev = "closed"

IsPromptEvent(e) == e.ev = "prompt"

BufsOf(events) == [i \in 1..Len(events) |-> events[i].buf]

ClosedSeq == BufsOf(SelectSeq(Log, IsClosedEvent))

PromptedSeq == BufsOf(SelectSeq(Log, IsPromptEvent))

Reverse(seq) == [i \in 1..Len(seq) |-> seq[Len(seq) + 1 - i]]

IsPrefix(a, b) == Len(a) <= Len(b) /\ a = SubSeq(b, 1, Len(a))

\* The buffers a batch close is to close, in index order.
Target ==
    IF last.op = "closeAllExceptActive" THEN Without(Pre.tabs, PreCurrent)
    ELSE IF last.op = "closeAllToLeft" THEN SubSeq(Pre.tabs, 1, Pre.cur)
    ELSE IF last.op = "closeAllToRight" THEN SubSeq(Pre.tabs, Pre.cur + 2, Len(Pre.tabs))
    ELSE Pre.tabs

WasDirty(id) == ~is_save_point(Pre.bufs[id])

\* The events of the registry about one buffer.
Lifecycle == {"created", "saved", "renamed", "closed", "write", "reloaded", "stray"}

\* C11: Save answered for a dirty untitled buffer opens the Save-As chooser
\* for that buffer; when the chooser is cancelled the close stops as for
\* Cancel: nothing is closed, no later prompt, the buffer stays untitled, dirty.
CancelledChooser(i) ==
    /\ i \in Prompted("Save")
    /\ \E k \in Logged("dialog") : k > i /\ Log[k].buf = Log[i].buf /\ Log[k].n = EmptyFileName

C11_CancelledSaveAsIsCancel ==
    \A i \in Prompted("Save") : ~isFile(Pre.bufs[Log[i].buf]) =>
        /\ i + 1 \in Logged("dialog")
        /\ Log[i + 1].buf = Log[i].buf
        /\ Log[i + 1].cur = findIndexFromBuffer(Pre, Log[i].buf)
        /\ CancelledChooser(i) =>
            /\ Closed = {}
            /\ tabs = Pre.tabs
            /\ \A k \in Logged("prompt") : k <= i
            /\ bufs[Log[i].buf] = Pre.bufs[Log[i].buf]
            /\ ~isFile(bufs[Log[i].buf])
            /\ ~is_save_point(bufs[Log[i].buf])
            /\ last.op = "closeEvent" => ~accepted

C11_Witness ==
    /\ last.op = "closeAllExceptActive"
    /\ \E i \in DOMAIN Log : CancelledChooser(i)
    /\ Prompted("Discard") # {}

\* C12: a window close whose check stopped is ignored, closes nothing and
\* leaves allBuffersClosed connected to newFile; otherwise every buffer is
\* closed with no prompt after the first close, none is created, and the
\* event is accepted with no tab left.
C12_CloseEvent ==
    last.op = "closeEvent" =>
        /\ last.ret = ~Aborted
        /\ accepted = last.ret
        /\ IF ~last.ret
           THEN /\ Closed = {}
                /\ tabs = Pre.tabs
                /\ DOMAIN bufs = DOMAIN Pre.bufs
                /\ connAllClosed
           ELSE /\ Len(tabs) = 0
                /\ DOMAIN bufs = {}
                /\ Closed = DOMAIN Pre.bufs
                /\ Logged("created") = {}
                /\ \A k \in Logged("prompt"), c \in Logged("closed") : k < c

C12_Witness ==
    /\ last.op = "closeEvent"
    /\ accepted
    /\ Len(Pre.tabs) >= 2
    /\ Prompted("Save") # {}

\* The buffer the last slot activated: the current one on focus-in, the one of
\* the tab switched to.
Activated ==
    IF last.op = "focusIn" THEN PreCurrent
    ELSE IF last.op = "switchTab" /\ last.arg # Pre.cur THEN Pre.tabs[last.arg + 1]
    ELSE Q_NULLPTR

\* C13: on activation or focus-in the buffer is reloaded from disk exactly when
\* its file was modified, dirty or not, with no prompt; otherwise no buffer changes.
C13_ReloadIffModified ==
    Activated # Q_NULLPTR =>
        LET id == Activated IN
        /\ Logged("prompt") = {} /\ Logged("reload file") = {} /\ Logged("dialog") = {}
        /\ DOMAIN bufs = DOMAIN Pre.bufs
        /\ tabs = Pre.tabs
        /\ disk = Pre.disk
        /\ IF checkForBufferStateChange(Pre, id) = "Modified"
           THEN /\ Reloaded = {id}
                /\ bufs[id].text = Pre.disk[Pre.bufs[id].path]
                /\ is_save_point(bufs[id])
                /\ bufs[id].path = Pre.bufs[id].path
                /\ \A o \in DOMAIN bufs \ {id} : bufs[o] = Pre.bufs[o]
           ELSE /\ Reloaded = {}
                /\ bufs = Pre.bufs

C13_Witness ==
    /\ last.op = "switchTab"
    /\ Activated # Q_NULLPTR
    /\ checkForBufferStateChange(Pre, Activated) = "Modified"
    /\ WasDirty(Activated)
    /\ bufs[Activated].text # Pre.bufs[Activated].text

\* C14: a buffer's "created" comes before every other event of the registry
\* about it, a buffer is created once, and the registry sees no operation or
\* event about a buffer after its "closed".
C14_LifecycleOrder ==
    /\ \A id \in DOMAIN Pre.bufs : id < Pre.nextId
    /\ DOMAIN bufs = (DOMAIN Pre.bufs \cup {Log[i].buf : i \in Logged("created")}) \ Closed
    /\ \A i \in DOMAIN Log : Log[i].ev \in Lifecycle =>
        LET b == Log[i].buf
            earlier(ev) == \E j \in 1..(i - 1) : Log[j].ev = ev /\ Log[j].buf = b
        IN  /\ Log[i].ev # "stray"
            /\ ~earlier("closed")
            /\ IF Log[i].ev = "created"
               THEN b >= Pre.nextId /\ ~earlier("created")
               ELSE b \in DOMAIN Pre.bufs \/ earlier("created")

C14_Witness ==
    /\ last.op = "closeAllFiles"
    /\ \E i \in Logged("renamed"), j \in Logged("closed") : Log[i].buf = Log[j].buf
    /\ Logged("created") # {}

C16_SaveAtSavePoint ==
    (last.op = "saveCurrentFile" /\ ~WasDirty(PreCurrent)) =>
        /\ last.ret
        /\ Log = <<>>
        /\ bufs = Pre.bufs
        /\ tabs = Pre.tabs
        /\ cur = Pre.cur
        /\ disk = Pre.disk
        /\ recent = Pre.recent

C16_Witness ==
    /\ last.op = "saveCurrentFile"
    /\ ~WasDirty(PreCurrent)
    /\ ~isFile(Pre.bufs[PreCurrent])
    /\ \E id \in DOMAIN Pre.bufs : isFile(Pre.bufs[id])

C18_ClosedInReverse ==
    (last.op \in BatchCloses \ {"closeEvent"} /\ ~Aborted) =>
        ClosedSeq = Reverse(Target)

\* C18 as amended: when the check of a batch close passes, every buffer of the
\* target range is closed and no other; closeAllFiles closes them in
\* descending index order, closeAllExceptActive, closeAllToLeft and
\* closeAllToRight in ascending index order.
C18_ClosedInOrder ==
    (last.op \in BatchCloses \ {"closeEvent"} /\ ~Aborted) =>
        /\ ClosedSeq = IF last.op = "closeAllFiles" THEN Reverse(Target) ELSE Target
        /\ Logged("hang") = {}
        /\ \A id \in Range(Target) : id \notin DOMAIN bufs

C18_Witness ==
    /\ last.op = "closeAllToLeft"
    /\ ~Aborted
    /\ Len(ClosedSeq) >= 2
    /\ Prompted("Discard") # {}

ValidCurrent(c, n) == (c \in 0..(n - 1)) <=> (n > 0)

\* C19: the current index is a position of the tab sequence exactly when the
\* sequence is not empty, in every state and after every step of a slot.
C19_CurrentIndexValid ==
    /\ ValidCurrent(cur, Len(tabs))
    /\ Len(tabs) = 0 => cur = INVALID_INDEX
    /\ \A i \in DOMAIN Log :
        /\ ValidCurrent(Log[i].cur, Log[i].cnt)
        /\ Log[i].cnt = 0 => Log[i].cur = INVALID_INDEX

C19_Witness ==
    /\ last.op = "closeAllToLeft"
    /\ Cardinality(Logged("removed")) >= 2
    /\ Pre.cur = 2

\* C20: a batch close prompts exactly for the dirty buffers of its target
\* range, in increasing index order (up to the prompt that stops it); never
\* for a buffer at save-point or outside the range, such as the active buffer
\* closeAllToRight keeps.
C20_PromptsForTargetRange ==
    last.op \in BatchCloses =>
        /\ IsPrefix(PromptedSeq, SelectSeq(Target, WasDirty))
        /\ ~Aborted => PromptedSeq = SelectSeq(Target, WasDirty)

\* C21: in a batch close every prompt comes before every close; the Cancel
\* reply is the last thing that happens: no later prompt, save or close.
C21_PromptsBeforeCloses ==
    last.op \in BatchCloses =>
        /\ \A k \in Logged("prompt"), c \in Logged("closed") : k < c
        /\ \A i \in Prompted("Cancel") : i = Len(Log)
        /\ Aborted => Closed = {} /\ tabs = Pre.tabs

C21_Witness ==
    /\ last.op = "closeAllExceptActive"
    /\ Prompted("Discard") # {}
    /\ Prompted("Cancel") # {}

\* The entries of the list whose file is open when openFileList returns: opened
\* by it or found open.
GoodEntries == {k \in DOMAIN last.files : WithPath(bufs, last.files[k]) # {}}

LastGood == CHOOSE k \in GoodEntries : \A j \in GoodEntries : j <= k

\* C22: when some file of the list was opened or found open, the current
\* buffer after openFileList is the buffer of the last such file of the list.
C22_LastOpenedIsCurrent ==
    (last.op = "openFileList" /\ GoodEntries # {}) =>
        getCurrentBuffer(World) \in WithPath(bufs, last.files[LastGood])

\* C23: closeAllToLeft and closeAllToRight, the check passed, keep the buffer
\* that was current open and current, close exactly the buffers on their side
\* and leave the other side open in its order.
C23_SideClosed ==
    (last.op \in {"closeAllToLeft", "closeAllToRight"} /\ ~Aborted) =>
        /\ tabs = IF last.op = "closeAllToLeft"
                  THEN SubSeq(Pre.tabs, Pre.cur + 1, Len(Pre.tabs))
                  ELSE SubSeq(Pre.tabs, 1, Pre.cur + 1)
        /\ getCurrentBuffer(World) = PreCurrent
        /\ Closed = Range(Target)
        /\ DOMAIN bufs = DOMAIN Pre.bufs \ Range(Target)

C23_Witness ==
    /\ last.op = "closeAllToRight"
    /\ ~Aborted
    /\ Pre.cur = 1
    /\ Len(Pre.tabs) = 3
    /\ Prompted("Discard") # {}

\* openFileList is given one path that is no file on disk and is not open.
OpensMissingFile ==
    /\ last.op = "openFileList"
    /\ Len(last.files) = 1
    /\ Pre.disk[last.files[1]] = Absent
    /\ WithPath(Pre.bufs, last.files[1]) = {}

C25_OpenInInitialState ==
    (last.op = "openFileList" /\ PreInitialState) =>
        IF Logged("created") # {}
        THEN /\ PreCurrent \notin DOMAIN bufs
             /\ DOMAIN bufs = {Log[i].buf : i \in Logged("created")}
             /\ Range(tabs) = DOMAIN bufs
             /\ \A id \in DOMAIN bufs : isFile(bufs[id])
             /\ getCurrentBuffer(World) \in WithPath(bufs, last.files[LastGood])
        ELSE /\ bufs = Pre.bufs
             /\ tabs = Pre.tabs
             /\ cur = Pre.cur

\* C26: the closing loops of closeAllExceptActive, closeAllToLeft and
\* closeAllToRight end: none is given up as not terminating.
C26_LoopsTerminate ==
    last.op \in {"closeAllExceptActive", "closeAllToLeft", "closeAllToRight"} =>
        Logged("hang") = {}

C26_Witness ==
    /\ last.op = "closeAllExceptActive"
    /\ ~Aborted
    /\ Pre.cur = 1
    /\ Len(Pre.tabs) = 3
    /\ Len(ClosedSeq) = 2

\* C27: closeAllExceptActive, both checks passed, ends with one open buffer,
\* the one that was current when it was invoked, and creates no buffer.
C27_OnlyActiveLeft ==
    (last.op = "closeAllExceptActive" /\ ~Aborted) =>
        /\ tabs = <<PreCurrent>>
        /\ cur = 0
        /\ DOMAIN bufs = {PreCurrent}
        /\ Logged("created") = {}
        /\ Logged("allClosed") = {}

C27_Witness ==
    /\ last.op = "closeAllExceptActive"
    /\ ~Aborted
    /\ Len(Pre.tabs) = 3
    /\ \E i \in Logged("switched") : Log[i].buf # PreCurrent

\* C28: the recent-files list never holds the path of an open buffer.
C28_RecentNotOpen ==
    \A id \in DOMAIN bufs : isFile(bufs[id]) =>
        \A i \in DOMAIN recent : recent[i] # bufs[id].path

\* C29: renameFile never closes the buffer it renames, whatever path is chosen.
C29_RenamedStaysOpen ==
    last.op = "renameFile" =>
        /\ PreCurrent \in DOMAIN bufs
        /\ PreCurrent \notin Closed

\* C30: while a recording runs Playback, Run multiple times and Save current
\* macro are disabled; when no recording runs Playback is enabled only if there
\* is a current macro; the list of saved macros holds no macro twice.
C30_MacroActions ==
    /\ recording =>
         /\ ~actionPlayback
         /\ ~actionRunMacroMultipleTimes
         /\ ~actionSaveCurrentRecordedMacro
    /\ (~recording /\ actionPlayback) => currentMacro # Q_NULLPTR
    /\ NoDuplicates(macros)

\* A recording of nothing was stopped while the current macro is a saved one.
C30_Witness ==
    /\ lastMacro.op = "macroRecording"
    /\ ~recording
    /\ lastMacro.size = 0
    /\ currentMacro # Q_NULLPTR
    /\ \E i \in DOMAIN macros : macros[i] = currentMacro
    /\ Len(macros) >= 2
    /\ actionPlayback

====
